---- MODULE Spec2Model ----
(***************************************************************************)
(* Model of the two command-line programs of go-query-usdc:                *)
(*   - the token command (src/main.go): reads USDC's decimals, the latest  *)
(*     block header, and prints the Transfer logs of the last 100 blocks;  *)
(*   - the NFT command (src/unnamed/part_000): reads ownerOf and tokenURI  *)
(*     of one token id.                                                    *)
(* The RPC transport is an external collaborator: its answers are fixed in *)
(* the variable transport when the process starts (a programmed transport) *)
(* and every answer a node can give is a possible initial value.           *)
(***************************************************************************)
EXTENDS Integers, Sequences, FiniteSets, TLC

VARIABLES cmd, transport, pc, status, fatalMsg, stdout, calls,
          tokenId, decimals, latestBlock, startBlock, endBlock, logs, idx

vars == <<cmd, transport, pc, status, fatalMsg, stdout, calls,
          tokenId, decimals, latestBlock, startBlock, endBlock, logs, idx>>

(***************************************************************************)
(* Bounds of the model.                                                    *)
(***************************************************************************)
\* longest list of log entries the transport returns
MaxLogs == 2
\* largest decimals value the transport returns (a uint8 in the program)
MaxDecimals == 6
\* largest -tokenId flag value
MaxTokenId == 2

(***************************************************************************)
(* Bytes, hex strings, addresses and hashes (go-ethereum common).          *)
(* A hex string is a sequence of one-character strings.                    *)
(***************************************************************************)
AddressLength == 20
HashLength == 32

LowerHex == <<"0","1","2","3","4","5","6","7","8","9","a","b","c","d","e","f">>
UpperHex == <<"0","1","2","3","4","5","6","7","8","9","A","B","C","D","E","F">>

Zeros(n) == [k \in 1..n |-> 0]

\* value of one hex character, either case (encoding/hex fromHexChar)
HexVal(c) ==
  IF \E k \in 1..16 : LowerHex[k] = c
  THEN (CHOOSE k \in 1..16 : LowerHex[k] = c) - 1
  ELSE (CHOOSE k \in 1..16 : UpperHex[k] = c) - 1

\* common.Hex2Bytes: two hex characters per byte
Hex2Bytes(s) ==
  [k \in 1..(Len(s) \div 2) |-> 16 * HexVal(s[2 * k - 1]) + HexVal(s[2 * k])]

\* common.FromHex: drops a 0x prefix, pads an odd length with a leading 0
FromHex(s) ==
  LET t == IF Len(s) >= 2 /\ s[1] = "0" /\ s[2] \in {"x", "X"}
           THEN SubSeq(s, 3, Len(s)) ELSE s
      u == IF Len(t) % 2 = 1 THEN <<"0">> \o t ELSE t
  IN Hex2Bytes(u)

\* Hash.Hex: 0x followed by two lower-case hex characters per byte
HashHex(h) ==
  <<"0", "x">> \o
  [k \in 1..(2 * Len(h)) |->
     IF k % 2 = 1 THEN LowerHex[(h[(k + 1) \div 2] \div 16) + 1]
                  ELSE LowerHex[(h[k \div 2] % 16) + 1]]

\* common.BytesToAddress: keeps the last AddressLength bytes, left-pads with 0
BytesToAddress(b) ==
  IF Len(b) > AddressLength
  THEN SubSeq(b, Len(b) - AddressLength + 1, Len(b))
  ELSE Zeros(AddressLength - Len(b)) \o b

HexToAddress(s) == BytesToAddress(FromHex(s))

(***************************************************************************)
(* Unsigned 64-bit numbers: four 16-bit limbs, least significant first, so *)
(* that wrap-around and the int64 conversion are computed at full width.   *)
(***************************************************************************)
Base == 2^16

U64(n) == <<n % Base, n \div Base, 0, 0>>

Zero64 == U64(0)

\* a - b on uint64, wrapping modulo 2^64
SubU64(a, b) ==
  LET d1 == a[1] - b[1]
      w1 == IF d1 < 0 THEN 1 ELSE 0
      d2 == a[2] - b[2] - w1
      w2 == IF d2 < 0 THEN 1 ELSE 0
      d3 == a[3] - b[3] - w2
      w3 == IF d3 < 0 THEN 1 ELSE 0
      d4 == a[4] - b[4] - w3
  IN <<(d1 + Base) % Base, (d2 + Base) % Base,
       (d3 + Base) % Base, (d4 + Base) % Base>>

\* a < b on uint64
LtU64(a, b) ==
  \E k \in 1..4 : a[k] < b[k] /\ \A j \in (k + 1)..4 : a[j] = b[j]

\* big.NewInt(int64(x)): the same 64 bits read as two's complement, held as
\* sign and magnitude
NewIntFromUint64(x) ==
  IF x[4] >= Base \div 2
  THEN [neg |-> TRUE, abs |-> SubU64(Zero64, x)]
  ELSE [neg |-> FALSE, abs |-> x]

(***************************************************************************)
(* math/big on the amounts.                                                *)
(***************************************************************************)
\* big.Int.SetBytes: the bytes as a big-endian unsigned integer
RECURSIVE SetBytes(_)
SetBytes(b) ==
  IF b = <<>> THEN 0
  ELSE 256 * SetBytes(SubSeq(b, 1, Len(b) - 1)) + b[Len(b)]

\* big.Int.String: decimal digits, most significant first
RECURSIVE BigString(_)
BigString(n) ==
  IF n < 10 THEN <<LowerHex[n + 1]>>
  ELSE BigString(n \div 10) \o <<LowerHex[(n % 10) + 1]>>

(***************************************************************************)
(* Program constants.                                                      *)
(***************************************************************************)
USDC_CONTRACT_ADDRESS ==
  <<"0","x","A","0","b","8","6","9","9","1","c","6","2","1","8","b","3","6",
    "c","1","d","1","9","D","4","a","2","e","9","E","b","0","c","E","3","6",
    "0","6","e","B","4","8">>

TRANSFER_EVENT_SIGNATURE == "Transfer(address,address,uint256)"

NFT_CONTRACT_ADDRESS ==
  <<"0","x","0","4","8","3","b","0","d","f","c","6","c","7","8","0","6","2",
    "b","9","e","9","9","9","a","8","2","f","f","b","7","9","5","9","2","5",
    "3","8","1","4","1","5">>

ZeroAddressHex == <<"0", "x">> \o [k \in 1..(2 * AddressLength) |-> "0"]

\* crypto.Keccak256Hash on the event signatures a token contract declares:
\* the digest of each, byte by byte
Keccak256Hash(sig) ==
  CASE sig = "Transfer(address,address,uint256)" ->
         <<221,242,82,173,27,226,200,155,105,194,176,104,252,55,141,170,
           149,43,167,241,99,196,161,22,40,245,90,77,245,35,179,239>>
    [] sig = "Approval(address,address,uint256)" ->
         <<140,91,225,229,235,236,125,91,209,79,113,66,125,30,132,243,
           221,3,20,192,247,178,41,30,91,32,10,200,199,195,185,37>>

Nil == <<>>


(***************************************************************************)
(* What the transport can answer.  A response is [kind, val]: kind "ok"    *)
(* carries the value, "error" is a failed request, "empty" is a call that  *)
(* came back with no return data.                                          *)
(***************************************************************************)
Resp(kind, val) == [kind |-> kind, val |-> val]

NotUsed == Resp("unused", 0)

\* a 32-byte topic holding a 20-byte address in its low bytes
TopicOf(addr) == Zeros(HashLength - AddressLength) \o addr

AddrA == [k \in 1..AddressLength |-> k]
AddrB == [k \in 1..AddressLength |-> 100 + k]
ZeroAddr == Zeros(AddressLength)

\* low 20 bytes zero, high bytes not
DirtyZeroTopic == <<255>> \o Zeros(HashLength - 1)
\* only the lowest byte set
LowBitTopic == Zeros(HashLength - 1) \o <<1>>

\* a 32-byte data word ending in the given bytes
DataWord(b) == Zeros(HashLength - Len(b)) \o b

TransferTopic == Keccak256Hash(TRANSFER_EVENT_SIGNATURE)

Log(block, topics, data) ==
  [BlockNumber |-> block, Topics |-> topics, Data |-> data]

LogPool ==
  { Log(21000001, <<TransferTopic, TopicOf(AddrA), TopicOf(AddrB)>>,
        DataWord(<<15, 66, 64>>)),                       \* 1,000,000
    Log(21000002, <<TransferTopic, TopicOf(ZeroAddr), TopicOf(AddrA)>>,
        DataWord(<<38, 37, 160>>)),                      \* 2,500,000
    Log(21000003, <<TransferTopic, DirtyZeroTopic, TopicOf(AddrB)>>,
        DataWord(<<30, 132, 127>>)),                     \* 1,999,999
    Log(21000004, <<TransferTopic, LowBitTopic, TopicOf(ZeroAddr)>>,
        <<7>>),                                          \* 7, one byte
    Log(21000005, <<TransferTopic>>, DataWord(<<1>>)),   \* no indexed field
    Log(21000006, <<TransferTopic, TopicOf(AddrA)>>, <<>>) } \* one indexed

LogLists == UNION { [1..n -> LogPool] : n \in 0..MaxLogs }

\* chain heads: the boundary of the 100-block window, a borrow across a
\* limb, a present-day head, and the boundary of the int64 range
Heads ==
  { U64(0), U64(1), U64(98), U64(99), U64(100), U64(65586), U64(21000000),
    <<65535, 65535, 65535, 32767>>,   \* 2^63 - 1
    <<0, 0, 0, 32768>>,               \* 2^63
    <<98, 0, 0, 32768>>,              \* 2^63 + 98
    <<99, 0, 0, 32768>>,              \* 2^63 + 99
    <<65535, 65535, 65535, 65535>> }  \* 2^64 - 1

DialResponses == {"ok", "error"}
DecimalsResponses ==
  {Resp("error", 0), Resp("empty", 0)} \cup {Resp("ok", d) : d \in 0..MaxDecimals}
HeaderResponses == {Resp("error", Zero64)} \cup {Resp("ok", h) : h \in Heads}
LogsResponses == {Resp("error", <<>>)} \cup {Resp("ok", l) : l \in LogLists}
OwnerResponses ==
  {Resp("error", ZeroAddr), Resp("empty", ZeroAddr)}
    \cup {Resp("ok", a) : a \in {AddrA, AddrB, ZeroAddr}}
URIResponses ==
  {Resp("error", ""), Resp("empty", "")}
    \cup {Resp("ok", u) : u \in {"", "ipfs://meta/1.json", "https://nft.example/1"}}
TokenIds == 0..MaxTokenId

TransportError == <<"transport error">>
UnpackError == <<"abi: attempting to unmarshall an empty string while arguments are expected">>
IndexPanic == <<"panic: runtime error: index out of range">>

(***************************************************************************)
(* Initial states: one of the two commands starts, against a transport     *)
(* programmed with any of the answers above.                               *)
(***************************************************************************)
TokenTransports ==
  [dial : DialResponses, decimals : DecimalsResponses, header : HeaderResponses,
   logs : LogsResponses, ownerOf : {NotUsed}, tokenURI : {NotUsed}]

NFTTransports ==
  [dial : DialResponses, decimals : {NotUsed}, header : {NotUsed},
   logs : {NotUsed}, ownerOf : OwnerResponses, tokenURI : URIResponses]

Init ==
  /\ cmd \in {"token", "nft"}
  /\ transport \in (IF cmd = "token" THEN TokenTransports ELSE NFTTransports)
  /\ tokenId \in (IF cmd = "nft" THEN TokenIds ELSE {0})
  /\ pc = "dial"
  /\ status = "running"
  /\ fatalMsg = Nil
  /\ stdout = <<>>
  /\ calls = <<>>
  /\ decimals = 0
  /\ latestBlock = Zero64
  /\ startBlock = Zero64
  /\ endBlock = Zero64
  /\ logs = <<>>
  /\ idx = 0

(***************************************************************************)
(* bind.BoundContract.Call with one declared output: the decoded values,   *)
(* or the error of the request or of unpacking an empty answer.            *)
(***************************************************************************)
ContractCall(resp) ==
  CASE resp.kind = "ok"    -> [out |-> <<resp.val>>, err |-> Nil]
    [] resp.kind = "empty" -> [out |-> <<>>, err |-> UnpackError]
    [] OTHER               -> [out |-> <<>>, err |-> TransportError]

\* usdcCaller.Decimals
Decimals(resp) ==
  LET r == ContractCall(resp)
  IN IF r.err # Nil THEN [val |-> 0, err |-> r.err]
     ELSE [val |-> r.out[1], err |-> Nil]

\* faulty variant: a window of 101 blocks
DefaultStartBlockOffByOne(latest) ==
  LET s == SubU64(latest, U64(100))
  IN IF LtU64(s, Zero64) THEN Zero64 ELSE s

\* main: startBlock := latestBlock - 99; if startBlock < 0 { startBlock = 0 }
DefaultStartBlock(latest) ==
  LET s == SubU64(latest, U64(99))
  IN IF LtU64(s, Zero64) THEN Zero64 ELSE s

\* faulty variant: the Approval event is matched as well
FilterQueryWithApproval(start, end) ==
  [FromBlock |-> NewIntFromUint64(start),
   ToBlock   |-> NewIntFromUint64(end),
   Addresses |-> <<HexToAddress(USDC_CONTRACT_ADDRESS)>>,
   Topics    |-> << <<Keccak256Hash(TRANSFER_EVENT_SIGNATURE),
                      Keccak256Hash("Approval(address,address,uint256)")>> >>]

\* getUSDCTransfers: the ethereum.FilterQuery it builds
FilterQuery(start, end) ==
  [FromBlock |-> NewIntFromUint64(start),
   ToBlock   |-> NewIntFromUint64(end),
   Addresses |-> <<HexToAddress(USDC_CONTRACT_ADDRESS)>>,
   Topics    |-> << <<Keccak256Hash(TRANSFER_EVENT_SIGNATURE)>> >>]

\* faulty variant: the divisor is 10 * decimals instead of 10^decimals
AmountLinearDivisor(data, dec) ==
  BigString(SetBytes(data) \div (IF dec = 0 THEN 1 ELSE 10 * dec))

\* getUSDCTransfers: amount = SetBytes(vLog.Data) / 10^decimals, as printed
Amount(data, dec) == BigString(SetBytes(data) \div (10 ^ dec))

\* getUSDCTransfers: "Mint" when from is the zero address
TransferType(from) ==
  IF from = HexToAddress(ZeroAddressHex) THEN "Mint" ELSE "Transfer"

\* faulty variant: sender and recipient read from each other's topic
TransferLineSwappedTopics(vLog, dec) ==
  LET from == HexToAddress(HashHex(vLog.Topics[3]))
      to   == HexToAddress(HashHex(vLog.Topics[2]))
  IN [kind |-> "transfer", block |-> vLog.BlockNumber,
      type |-> TransferType(from), from |-> from, to |-> to,
      amount |-> Amount(vLog.Data, dec)]

\* getUSDCTransfers: the line printed for one log entry
TransferLine(vLog, dec) ==
  LET from == HexToAddress(HashHex(vLog.Topics[2]))
      to   == HexToAddress(HashHex(vLog.Topics[3]))
  IN [kind |-> "transfer", block |-> vLog.BlockNumber,
      type |-> TransferType(from), from |-> from, to |-> to,
      amount |-> Amount(vLog.Data, dec)]

\* log.Fatalf: the message, then the process exits
Fatal(msg, err) ==
  /\ status' = "fatal"
  /\ fatalMsg' = <<msg>> \o err
  /\ pc' = "exit"


(***************************************************************************)
(* The token command, src/main.go.                                         *)
(***************************************************************************)
TokenLocals == <<decimals, latestBlock, startBlock, endBlock, logs, idx>>

\* main: ethclient.Dial and NewUSDC (the ABI is a constant that parses)
TokenDial ==
  /\ cmd = "token" /\ pc = "dial" /\ status = "running"
  /\ IF transport.dial = "error"
     THEN Fatal("Failed to connect to the Ethereum mainnet", TransportError)
     ELSE /\ pc' = "decimals"
          /\ UNCHANGED <<status, fatalMsg>>
  /\ UNCHANGED <<cmd, transport, stdout, calls, tokenId, TokenLocals>>

\* main: usdc.Decimals and the line that prints it
TokenDecimals ==
  /\ cmd = "token" /\ pc = "decimals" /\ status = "running"
  /\ LET r == Decimals(transport.decimals)
     IN /\ calls' = Append(calls, [op |-> "decimals"])
        /\ IF r.err # Nil
           THEN /\ Fatal("Failed to get USDC decimal places", r.err)
                /\ UNCHANGED <<stdout, decimals>>
           ELSE /\ decimals' = r.val
                /\ stdout' = Append(stdout, [kind |-> "decimals", value |-> r.val])
                /\ pc' = "header"
                /\ UNCHANGED <<status, fatalMsg>>
  /\ UNCHANGED <<cmd, transport, tokenId, latestBlock, startBlock, endBlock,
                 logs, idx>>

\* main: client.HeaderByNumber(nil) and the default block range
TokenHeader ==
  /\ cmd = "token" /\ pc = "header" /\ status = "running"
  /\ calls' = Append(calls, [op |-> "header"])
  /\ IF transport.header.kind # "ok"
     THEN /\ Fatal("Failed to get the latest block number", TransportError)
          /\ UNCHANGED <<latestBlock, startBlock, endBlock>>
     ELSE /\ latestBlock' = transport.header.val
          /\ startBlock' = DefaultStartBlock(transport.header.val)
          /\ endBlock' = transport.header.val
          /\ pc' = "filter"
          /\ UNCHANGED <<status, fatalMsg>>
  /\ UNCHANGED <<cmd, transport, stdout, tokenId, decimals, logs, idx>>

\* faulty variant: a failed FilterLogs is treated as an empty result
TokenFilterIgnoresError ==
  /\ cmd = "token" /\ pc = "filter" /\ status = "running"
  /\ calls' = Append(calls, [op |-> "filterLogs",
                             query |-> FilterQuery(startBlock, endBlock)])
  /\ logs' = transport.logs.val
  /\ idx' = 1
  /\ stdout' = Append(stdout,
                      [kind |-> "found", count |-> Len(transport.logs.val),
                       start |-> startBlock, end |-> endBlock])
  /\ pc' = "loop"
  /\ UNCHANGED <<status, fatalMsg>>
  /\ UNCHANGED <<cmd, transport, tokenId, decimals, latestBlock, startBlock,
                 endBlock>>

\* getUSDCTransfers up to its loop: the query, client.FilterLogs, the
\* "Found ..." line; on an error it returns and main exits through Fatalf
TokenFilter ==
  /\ cmd = "token" /\ pc = "filter" /\ status = "running"
  /\ calls' = Append(calls, [op |-> "filterLogs",
                             query |-> FilterQuery(startBlock, endBlock)])
  /\ IF transport.logs.kind # "ok"
     THEN /\ Fatal("Failed to query USDC transfer records",
                   <<"Failed to filter logs">> \o TransportError)
          /\ UNCHANGED <<stdout, logs, idx>>
     ELSE /\ logs' = transport.logs.val
          /\ idx' = 1
          /\ stdout' = Append(stdout,
                              [kind |-> "found", count |-> Len(transport.logs.val),
                               start |-> startBlock, end |-> endBlock])
          /\ pc' = "loop"
          /\ UNCHANGED <<status, fatalMsg>>
  /\ UNCHANGED <<cmd, transport, tokenId, decimals, latestBlock, startBlock,
                 endBlock>>

\* getUSDCTransfers: one iteration of the loop over logs.  vLog.Topics[1]
\* and vLog.Topics[2] are indexed without a length check: a runtime panic
TokenLogEntry ==
  /\ cmd = "token" /\ pc = "loop" /\ status = "running"
  /\ idx <= Len(logs)
  /\ IF Len(logs[idx].Topics) < 3
     THEN /\ status' = "panic"
          /\ fatalMsg' = IndexPanic
          /\ pc' = "exit"
          /\ UNCHANGED <<stdout, idx>>
     ELSE /\ stdout' = Append(stdout, TransferLine(logs[idx], decimals))
          /\ idx' = idx + 1
          /\ UNCHANGED <<status, fatalMsg, pc>>
  /\ UNCHANGED <<cmd, transport, calls, tokenId, decimals, latestBlock,
                 startBlock, endBlock, logs>>

\* getUSDCTransfers returns nil and main ends
TokenReturn ==
  /\ cmd = "token" /\ pc = "loop" /\ status = "running"
  /\ idx > Len(logs)
  /\ status' = "exit0"
  /\ pc' = "exit"
  /\ UNCHANGED <<cmd, transport, fatalMsg, stdout, calls, tokenId, TokenLocals>>

(***************************************************************************)
(* The NFT command, src/unnamed/part_000.                                  *)
(***************************************************************************)
\* the OwnerOf closure bound in main
OwnerOf(resp) ==
  LET r == ContractCall(resp)
  IN IF r.err # Nil THEN [val |-> ZeroAddr, err |-> r.err]
     ELSE [val |-> r.out[1], err |-> Nil]

\* the TokenURI closure bound in main
TokenURI(resp) ==
  LET r == ContractCall(resp)
  IN IF r.err # Nil THEN [val |-> "", err |-> r.err]
     ELSE [val |-> r.out[1], err |-> Nil]

\* main: flag parsing, ethclient.Dial, abi.JSON (a constant that parses)
NFTDial ==
  /\ cmd = "nft" /\ pc = "dial" /\ status = "running"
  /\ IF transport.dial = "error"
     THEN Fatal("connect to ethereum mainnet failed", TransportError)
     ELSE /\ pc' = "info"
          /\ UNCHANGED <<status, fatalMsg>>
  /\ UNCHANGED <<cmd, transport, stdout, calls, tokenId, TokenLocals>>

\* getNFTInfo: the three header lines
NFTInfoStart ==
  /\ cmd = "nft" /\ pc = "info" /\ status = "running"
  /\ stdout' = stdout \o <<[kind |-> "start"],
                           [kind |-> "contract", address |-> NFT_CONTRACT_ADDRESS],
                           [kind |-> "tokenId", id |-> tokenId]>>
  /\ pc' = "ownerOf"
  /\ UNCHANGED <<cmd, transport, status, fatalMsg, calls, tokenId, TokenLocals>>

\* getNFTInfo: nft.OwnerOf; on an error it returns and main exits
NFTOwnerOf ==
  /\ cmd = "nft" /\ pc = "ownerOf" /\ status = "running"
  /\ LET r == OwnerOf(transport.ownerOf)
     IN /\ calls' = Append(calls, [op |-> "ownerOf", id |-> tokenId])
        /\ IF r.err # Nil
           THEN /\ Fatal("get NFT info failed",
                         <<"get owner address failed">> \o r.err)
                /\ UNCHANGED stdout
           ELSE /\ stdout' = Append(stdout, [kind |-> "owner", id |-> tokenId,
                                             address |-> r.val])
                /\ pc' = "tokenURI"
                /\ UNCHANGED <<status, fatalMsg>>
  /\ UNCHANGED <<cmd, transport, tokenId, TokenLocals>>

\* faulty variant: the tokenURI failure carries the owner lookup's message
NFTTokenURIWrongMessage ==
  /\ cmd = "nft" /\ pc = "tokenURI" /\ status = "running"
  /\ LET r == TokenURI(transport.tokenURI)
     IN /\ calls' = Append(calls, [op |-> "tokenURI", id |-> tokenId])
        /\ IF r.err # Nil
           THEN /\ Fatal("get NFT info failed",
                         <<"get owner address failed">> \o r.err)
                /\ UNCHANGED stdout
           ELSE /\ stdout' = Append(stdout, [kind |-> "uri", id |-> tokenId,
                                             uri |-> r.val])
                /\ status' = "exit0"
                /\ pc' = "exit"
                /\ UNCHANGED fatalMsg
  /\ UNCHANGED <<cmd, transport, tokenId, TokenLocals>>

\* getNFTInfo: nft.TokenURI, then return nil and main ends
NFTTokenURI ==
  /\ cmd = "nft" /\ pc = "tokenURI" /\ status = "running"
  /\ LET r == TokenURI(transport.tokenURI)
     IN /\ calls' = Append(calls, [op |-> "tokenURI", id |-> tokenId])
        /\ IF r.err # Nil
           THEN /\ Fatal("get NFT info failed",
                         <<"get metadata URI failed">> \o r.err)
                /\ UNCHANGED stdout
           ELSE /\ stdout' = Append(stdout, [kind |-> "uri", id |-> tokenId,
                                             uri |-> r.val])
                /\ status' = "exit0"
                /\ pc' = "exit"
                /\ UNCHANGED fatalMsg
  /\ UNCHANGED <<cmd, transport, tokenId, TokenLocals>>

Next ==
  \/ TokenDial
  \/ TokenDecimals
  \/ TokenHeader
  \/ TokenFilter
  \/ TokenLogEntry
  \/ TokenReturn
  \/ NFTDial
  \/ NFTInfoStart
  \/ NFTOwnerOf
  \/ NFTTokenURI

Spec == Init /\ [][Next]_vars


(***************************************************************************)
(* Vocabulary of the properties.                                           *)
(***************************************************************************)
Ops == [k \in 1..Len(calls) |-> calls[k].op]

Called(op) == \E k \in 1..Len(calls) : calls[k].op = op

Lines(kind) == SelectSeq(stdout, LAMBDA l : l.kind = kind)

IsPrefix(s, t) == Len(s) <= Len(t) /\ \A k \in 1..Len(s) : s[k] = t[k]

Mentions(msg, text) == \E k \in 1..Len(msg) : msg[k] = text

\* the head the header fetch returned, once main has read it
HeadRead == cmd = "token" /\ Called("header") /\ transport.header.kind = "ok"

\* a + b on uint64 by carries, and whether the sum stays below 2^64
AddCarry(a, b, k) ==
  IF k = 0 THEN 0
  ELSE LET RECURSIVE C(_)
           C(j) == IF j = 0 THEN 0 ELSE (a[j] + b[j] + C(j - 1)) \div Base
       IN C(k)

AddU64(a, b) == [k \in 1..4 |-> (a[k] + b[k] + AddCarry(a, b, k - 1)) % Base]

AddFits(a, b) == AddCarry(a, b, 4) = 0

\* a <= b on sign-and-magnitude integers
BigLeq(a, b) ==
  CASE a.neg /\ ~b.neg -> TRUE
    [] ~a.neg /\ b.neg -> FALSE
    [] ~a.neg /\ ~b.neg -> ~LtU64(b.abs, a.abs)
    [] OTHER -> ~LtU64(a.abs, b.abs)

\* the bytes read from the most significant end
RECURSIVE BigEndian(_, _)
BigEndian(b, acc) ==
  IF b = <<>> THEN acc ELSE BigEndian(Tail(b), 256 * acc + Head(b))

\* the number a string of decimal digits denotes
RECURSIVE DecimalValue(_, _)
DecimalValue(ds, acc) ==
  IF ds = <<>> THEN acc
  ELSE DecimalValue(Tail(ds), 10 * acc + HexVal(Head(ds)))

IsDecimal(ds) ==
  /\ Len(ds) >= 1
  /\ \A k \in 1..Len(ds) : ds[k] \in {"0","1","2","3","4","5","6","7","8","9"}
  /\ (Len(ds) > 1 => ds[1] # "0")

\* the low AddressLength bytes of a topic
LowBytes(topic) == SubSeq(topic, HashLength - AddressLength + 1, HashLength)

(***************************************************************************)
(* C1 (as claimed): in the token command, whenever the chain head H is     *)
(* below 99, the default block range main computes is [0, H]: the start    *)
(* block is clamped to the genesis block.                                  *)
(***************************************************************************)
C1_SmallHeadClampsToGenesis ==
  (HeadRead /\ LtU64(transport.header.val, U64(99)))
    => (startBlock = Zero64 /\ endBlock = transport.header.val)

(***************************************************************************)
(* C2: in the token command, whenever the chain head H is at least 99, the *)
(* block range handed to getUSDCTransfers is exactly [H-99, H]: start + 99 *)
(* = H without wrap-around and end = H, and the "Found" line shows it.     *)
(***************************************************************************)
C2_DefaultRangeIsLast100Blocks ==
  (HeadRead /\ ~LtU64(transport.header.val, U64(99)))
    => /\ endBlock = transport.header.val
       /\ AddFits(startBlock, U64(99))
       /\ AddU64(startBlock, U64(99)) = transport.header.val
       /\ \A k \in 1..Len(Lines("found")) :
            /\ Lines("found")[k].start = startBlock
            /\ Lines("found")[k].end = transport.header.val

C2_Witness ==
  /\ HeadRead
  /\ transport.header.val = U64(21000000)
  /\ startBlock = U64(20999901)
  /\ Len(Lines("found")) = 1

(***************************************************************************)
(* C3: every amount getUSDCTransfers prints is the decimal numeral of      *)
(* rawAmount / 10^d rounded down, where rawAmount is the entry's data read *)
(* as an unsigned big-endian integer and d the decimals value.             *)
(***************************************************************************)
C3_AmountIsRawOverTenToDecimals ==
  cmd = "token" =>
    \A k \in 1..Len(Lines("transfer")) :
      LET amount == Lines("transfer")[k].amount
          raw == BigEndian(transport.logs.val[k].Data, 0)
          q == DecimalValue(amount, 0)
          scale == 10 ^ transport.decimals.val
      IN /\ IsDecimal(amount)
         /\ q * scale <= raw
         /\ raw < (q + 1) * scale

\* decimals = 6 and a raw amount of 1,000,000 print "1"
C3_Witness ==
  /\ cmd = "token"
  /\ transport.decimals = Resp("ok", 6)
  /\ \E k \in 1..Len(Lines("transfer")) :
       /\ BigEndian(transport.logs.val[k].Data, 0) = 1000000
       /\ Lines("transfer")[k].amount = <<"1">>

(***************************************************************************)
(* C4: every record getUSDCTransfers prints is a "Mint" exactly when the   *)
(* sender decoded from the entry's first indexed topic (its low 20 bytes)  *)
(* is the all-zero address, and a "Transfer" otherwise.                    *)
(***************************************************************************)
C4_MintIffSenderIsZeroAddress ==
  cmd = "token" =>
    \A k \in 1..Len(Lines("transfer")) :
      LET line == Lines("transfer")[k]
          sender == LowBytes(transport.logs.val[k].Topics[2])
      IN /\ line.from = sender
         /\ line.type \in {"Mint", "Transfer"}
         /\ (line.type = "Mint") <=> (\A j \in 1..AddressLength : sender[j] = 0)

\* a mint (from a topic whose high bytes are not zero) and a transfer
C4_Witness ==
  /\ cmd = "token"
  /\ \E k \in 1..Len(Lines("transfer")) :
       /\ Lines("transfer")[k].type = "Mint"
       /\ transport.logs.val[k].Topics[2] = DirtyZeroTopic
  /\ \E k \in 1..Len(Lines("transfer")) : Lines("transfer")[k].type = "Transfer"

(***************************************************************************)
(* C5 (as claimed): when the log filter succeeded with N entries, the      *)
(* finished command has printed exactly N transfer records, the k-th of    *)
(* them for the k-th entry.                                                *)
(***************************************************************************)
C5_OneRecordPerEntryInOrder ==
  (cmd = "token" /\ status # "running" /\ Called("filterLogs")
     /\ transport.logs.kind = "ok")
    => /\ Len(Lines("transfer")) = Len(transport.logs.val)
       /\ \A k \in 1..Len(Lines("transfer")) :
            Lines("transfer")[k].block = transport.logs.val[k].BlockNumber


(***************************************************************************)
(* C6: in the token command the transport operations are issued in the     *)
(* order decimals, header, filterLogs, each at most once; an operation     *)
(* that fails is the last one issued, the command has then ended through   *)
(* Fatalf with a message naming that operation, takes no further step, and *)
(* has printed no result line of that operation.                           *)
(***************************************************************************)
OpFailed(op) ==
  CASE op = "decimals"   -> transport.decimals.kind # "ok"
    [] op = "header"     -> transport.header.kind # "ok"
    [] op = "filterLogs" -> transport.logs.kind # "ok"

OpErrorText(op) ==
  CASE op = "decimals"   -> "Failed to get USDC decimal places"
    [] op = "header"     -> "Failed to get the latest block number"
    [] op = "filterLogs" -> "Failed to filter logs"

OpResultLines(op) ==
  CASE op = "decimals"   -> Lines("decimals")
    [] op = "header"     -> Lines("found")
    [] op = "filterLogs" -> Lines("found") \o Lines("transfer")

C6_FirstTransportErrorIsFatal ==
  cmd = "token" =>
    /\ IsPrefix(Ops, <<"decimals", "header", "filterLogs">>)
    /\ \A k \in 1..Len(calls) :
         OpFailed(Ops[k]) =>
           /\ k = Len(calls)
           /\ status = "fatal"
           /\ Mentions(fatalMsg, OpErrorText(Ops[k]))
           /\ OpResultLines(Ops[k]) = <<>>
           /\ ~ENABLED Next

\* the log filter failed after the two calls before it succeeded
C6_Witness ==
  /\ cmd = "token"
  /\ Ops = <<"decimals", "header", "filterLogs">>
  /\ transport.logs.kind = "error"
  /\ status = "fatal"
  /\ Lines("decimals") # <<>>

(***************************************************************************)
(* C7 (as claimed): in the NFT command, once getNFTInfo has returned, a    *)
(* failing ownerOf is reported as the owner lookup with no owner line, a   *)
(* failing tokenURI is reported as the metadata-URI lookup with no URI     *)
(* line, and what is reported for either lookup depends on that lookup's   *)
(* answer alone.                                                           *)
(***************************************************************************)
NFTReturned == cmd = "nft" /\ status # "running" /\ Called("ownerOf")

OwnerFails == transport.ownerOf.kind # "ok"

URIFails == transport.tokenURI.kind # "ok"

C7_LookupsFailIndependently ==
  NFTReturned =>
    /\ OwnerFails => /\ Mentions(fatalMsg, "get owner address failed")
                     /\ Lines("owner") = <<>>
    /\ ~OwnerFails => Len(Lines("owner")) = 1
    /\ URIFails => /\ Mentions(fatalMsg, "get metadata URI failed")
                   /\ Lines("uri") = <<>>
    /\ ~URIFails => Len(Lines("uri")) = 1

(***************************************************************************)
(* C7 (amended): the lookups run in the order ownerOf, tokenURI and the    *)
(* first failure ends the command.  A failing ownerOf is reported as the   *)
(* owner lookup, with no owner line and tokenURI never issued; when        *)
(* ownerOf succeeds its owner line is printed whatever tokenURI answers,   *)
(* and a failing tokenURI is then reported as the metadata-URI lookup with *)
(* no URI line.                                                            *)
(***************************************************************************)
C7_FirstFailingLookupReported ==
  NFTReturned =>
    /\ IsPrefix(Ops, <<"ownerOf", "tokenURI">>)
    /\ OwnerFails =>
         /\ status = "fatal"
         /\ Mentions(fatalMsg, "get owner address failed")
         /\ ~Mentions(fatalMsg, "get metadata URI failed")
         /\ Lines("owner") = <<>>
         /\ Lines("uri") = <<>>
         /\ ~Called("tokenURI")
    /\ ~OwnerFails =>
         /\ Lines("owner") = <<[kind |-> "owner", id |-> tokenId,
                                address |-> transport.ownerOf.val]>>
         /\ Called("tokenURI")
         /\ URIFails =>
              /\ status = "fatal"
              /\ Mentions(fatalMsg, "get metadata URI failed")
              /\ ~Mentions(fatalMsg, "get owner address failed")
              /\ Lines("uri") = <<>>
         /\ ~URIFails =>
              /\ status = "exit0"
              /\ Lines("uri") = <<[kind |-> "uri", id |-> tokenId,
                                   uri |-> transport.tokenURI.val]>>

\* ownerOf succeeded and tokenURI failed
C7_Witness ==
  /\ NFTReturned
  /\ ~OwnerFails
  /\ URIFails
  /\ status = "fatal"
  /\ Len(Lines("owner")) = 1

(***************************************************************************)
(* C8: every filter query getUSDCTransfers sends has exactly one topic     *)
(* position holding exactly one topic, the keccak-256 digest of            *)
(* Transfer(address,address,uint256), and exactly one address, the USDC    *)
(* contract's.                                                             *)
(***************************************************************************)
C8_QueryHasOnlyTransferTopicAndUSDC ==
  \A k \in 1..Len(calls) :
    calls[k].op = "filterLogs" =>
      /\ calls[k].query.Topics =
           << << <<221,242,82,173,27,226,200,155,105,194,176,104,252,55,141,
                   170,149,43,167,241,99,196,161,22,40,245,90,77,245,35,179,
                   239>> >> >>
      /\ calls[k].query.Addresses =
           << <<160,184,105,145,198,33,139,54,193,209,157,74,46,158,176,206,
                54,6,235,72>> >>

\* a query was sent for the window below a present-day head
C8_Witness ==
  /\ Called("filterLogs")
  /\ endBlock = U64(21000000)
  /\ Len(calls[3].query.Topics) = 1

(***************************************************************************)
(* C9 (as claimed): every filter query the token command sends satisfies   *)
(* 0 <= from <= to, and its bounds are the start and end blocks printed in *)
(* the "Found" line.                                                       *)
(***************************************************************************)
C9_QueryBoundsOrderedAndAsPrinted ==
  \A k \in 1..Len(calls) :
    calls[k].op = "filterLogs" =>
      LET q == calls[k].query
      IN /\ ~q.FromBlock.neg
         /\ BigLeq(q.FromBlock, q.ToBlock)
         /\ \A j \in 1..Len(Lines("found")) :
              /\ q.FromBlock = [neg |-> FALSE, abs |-> Lines("found")[j].start]
              /\ q.ToBlock = [neg |-> FALSE, abs |-> Lines("found")[j].end]

(***************************************************************************)
(* C10 (as claimed): whatever the transport answers, a command that has    *)
(* ended either printed its results and exited normally or ended through   *)
(* Fatalf with a message naming the failed operation; it never ends in a   *)
(* runtime panic of an out-of-range index, and the records of the entries  *)
(* before a malformed one are printed.                                     *)
(***************************************************************************)
C10_NoUnhandledIndexPanic ==
  status # "running" =>
    /\ \A k \in 1..Len(logs) :
         (\A j \in 1..k : Len(logs[j].Topics) >= 3)
           => (Len(Lines("transfer")) >= k
                 /\ Lines("transfer")[k].block = logs[k].BlockNumber)
    /\ \/ status = "exit0"
       \/ /\ status = "fatal"
          /\ fatalMsg[1] \in {"Failed to connect to the Ethereum mainnet",
                              "Failed to get USDC decimal places",
                              "Failed to get the latest block number",
                              "Failed to query USDC transfer records",
                              "connect to ethereum mainnet failed",
                              "get NFT info failed"}

====
